---- MODULE Spec2Model ----
(***************************************************************************)
(* Model of src/src/rodin_mcp/rodin.py: the two tools of the Rodin MCP     *)
(* server, generate_3d_model (submit) and try_download_result (poll the    *)
(* status endpoint, resolve the download manifest, fetch every asset       *)
(* concurrently with per-file retry).                                      *)
(*                                                                         *)
(* One behaviour is one tool invocation.  The vendor is the environment:   *)
(* every response is drawn from a bounded set.  asyncio is cooperative, so *)
(* a coroutine runs atomically from one await to the next; every action    *)
(* below is one such stretch of code.  File writes (open/write, 85-86) and *)
(* os.makedirs (154) are taken to succeed.                                 *)
(***************************************************************************)
EXTENDS Integers, Sequences, FiniteSets, TLC

\* ---------------------------------------------------------------- bounds
MaxInvocations == 2   \* invocations of try_download_result in one behaviour
MaxJobs == 2          \* longest jobs list in a status response
MaxManifest == 2      \* longest list in a download-manifest response

\* ------------------------------------------------------ program constants
PollAttemptsMut == 4
PollAttempts == 3     \* for _ in range(3)
RetriesMut == 4
Retries == 3          \* download_file(..., retries: int = 3, ...)

\* ------------------------------------------------------------ vocabulary
Missing == "<missing>"
Statuses == {"Pending", "Running", "Done", "Failed", "Canceled"}
JobEntries == Statuses \cup {Missing}     \* Missing: entry without 'status'
Names == {"preview.webp", "model.glb"}
Urls == {"u1", "u2"}
Absent == "<absent>"
Old == "<old>"
RemoteContent == [u \in Urls |-> IF u = "u1" THEN "bytes1" ELSE "bytes2"]

SeqsUpTo(S, n) == UNION {[1..k -> S] : k \in 0..n}

StatusResponses ==
    {[kind |-> k, jobs |-> <<>>] :
        k \in {"transport_error", "http_error", "non_json", "no_jobs"}}
    \cup {[kind |-> "jobs", jobs |-> js] : js \in SeqsUpTo(JobEntries, MaxJobs)}

ManifestEntries == [name : Names \cup {Missing}, url : Urls \cup {Missing}]

ManifestResponses ==
    {[kind |-> k, list |-> <<>>] :
        k \in {"transport_error", "http_error", "non_json", "no_list"}}
    \cup {[kind |-> "list", list |-> l] :
            l \in SeqsUpTo(ManifestEntries, MaxManifest)}

SubmitResponses == {"transport_error", "http_error", "non_json", "json"}
GetResponses == {"ok", "fail"}

NoStatus == [kind |-> "none", jobs |-> <<>>]
NoManifest == [kind |-> "none", list |-> <<>>]

\* ------------------------------------------------------- results / errors
NoResult ==
    [outcome |-> "none", value |-> "", exc |-> "", msg |-> "",
     response |-> FALSE, preview |-> FALSE]
Returned(v, p) ==
    [outcome |-> "returned", value |-> v, exc |-> "", msg |-> "",
     response |-> FALSE, preview |-> p]
Raised(e, m, r) ==
    [outcome |-> "raised", value |-> "", exc |-> e, msg |-> m,
     response |-> r, preview |-> FALSE]

NotFinished == "Task not finished yet. Try again later."
Downloaded == "The assets are downloaded to target_directory_path"
ApiError == "RodinAPIException"

\* error_handle_response on a response that exists: raise_for_status raises
\* httpx.HTTPStatusError for non-2xx, re-raised as RodinAPIException carrying
\* the response.  TRUE iff it raises.
ErrorHandleRaises(kind) == kind = "http_error"
HttpErrorResult == Raised(ApiError, "HTTP error occurred", TRUE)
\* client.post itself raises httpx.RequestError / TimeoutException: the call
\* is outside error_handle_response, so the httpx exception propagates.
TransportErrorResult == Raised("httpx.RequestError", "transport", FALSE)
\* response.json() on a body that is not JSON
JsonErrorResult == Raised("json.JSONDecodeError", "non-json body", FALSE)

\* -------------------------------------------------------- pure functions
\* [i['status'] for i in json_data["jobs"]] raises iff an entry has no status
StatusListRaises(resp) ==
    \/ resp.kind = "no_jobs"
    \/ \E k \in DOMAIN resp.jobs : resp.jobs[k] = Missing

HasFailedMut(status_list) ==
    \E k \in DOMAIN status_list : status_list[k] = "Failed"
HasFailed(status_list) ==
    \E k \in DOMAIN status_list : status_list[k] \in {"Failed", "Canceled"}

AllDoneMut(status_list) ==
    \A k \in DOMAIN status_list : status_list[k] = "Succeeded"
AllDoneMutAny(status_list) ==
    \E k \in DOMAIN status_list : status_list[k] = "Done"
AllDoneMutNonEmpty(status_list) ==
    /\ status_list # <<>>
    /\ \A k \in DOMAIN status_list : status_list[k] = "Done"
AllDone(status_list) ==
    \A k \in DOMAIN status_list : status_list[k] = "Done"

\* {i['name']: i['url'] for i in json_data['list']}
AssetDictRaises(resp) ==
    \/ resp.kind = "no_list"
    \/ \E k \in DOMAIN resp.list :
          resp.list[k].name = Missing \/ resp.list[k].url = Missing

LastIndex(list, n) ==
    CHOOSE k \in DOMAIN list :
        /\ list[k].name = n
        /\ \A j \in DOMAIN list : list[j].name = n => j <= k
FirstIndex(list, n) ==
    CHOOSE k \in DOMAIN list :
        /\ list[k].name = n
        /\ \A j \in DOMAIN list : list[j].name = n => j >= k

AssetDictMut(list) ==
    [n \in {list[k].name : k \in DOMAIN list} |-> list[FirstIndex(list, n)].url]
AssetDict(list) ==
    [n \in {list[k].name : k \in DOMAIN list} |-> list[LastIndex(list, n)].url]

HasPreviewMut(d) == d # <<>>
HasPreview(d) == "preview.webp" \in DOMAIN d

\* ------------------------------------------------------------------ state
VARIABLES
    tool,          \* which tool this invocation runs
    pc,            \* position of the tool coroutine
    i,             \* poll loop index (completed iterations)
    submitReqs,    \* POSTs sent to /api/v2/rodin
    statusReqs,    \* POSTs sent to /api/v2/status
    manifestReqs,  \* POSTs sent to /api/v2/download
    submit_resp,   \* outcome of the submit POST ("none" before it)
    status_resp,   \* latest outcome of a status POST
    pendingPolls,  \* status responses seen that were neither terminal nor done
    manifest_resp, \* outcome of the manifest POST
    asset_dict,    \* name -> url
    dirExists,     \* target directory exists
    fs,            \* content of {target}/{name}
    tasks,         \* download_file coroutine per name
    clientClosed,  \* the download AsyncClient has been closed
    fs0,           \* fs as it was when the tool was invoked
    dir0,          \* dirExists as it was when the tool was invoked
    invocation,    \* ordinal of the current tool invocation
    wire,          \* requests sent so far: <<endpoint, carries bearer>>
    result         \* what the tool returned or raised

vars == <<tool, pc, i, submitReqs, statusReqs, manifestReqs, submit_resp,
          status_resp, pendingPolls, manifest_resp, asset_dict, dirExists,
          fs, tasks, clientClosed, fs0, dir0, invocation, wire, result>>

Unlaunched == [pc |-> "unlaunched", attempt |-> 0, gets |-> 0]

Init ==
    /\ tool \in {"generate_3d_model", "try_download_result"}
    /\ pc = IF tool = "generate_3d_model" THEN "submit" ELSE "poll"
    /\ i = 0
    /\ submitReqs = 0
    /\ statusReqs = 0
    /\ manifestReqs = 0
    /\ submit_resp = "none"
    /\ status_resp = NoStatus
    /\ pendingPolls = 0
    /\ manifest_resp = NoManifest
    /\ asset_dict = <<>>
    /\ fs \in [Names -> {Absent, Old}]
    /\ dirExists \in BOOLEAN
    /\ (\E n \in Names : fs[n] # Absent) => dirExists
    /\ tasks = [n \in Names |-> Unlaunched]
    /\ clientClosed = FALSE
    /\ fs0 = fs
    /\ dir0 = dirExists
    /\ invocation = 1
    /\ wire = {}
    /\ result = NoResult

\* httpx.AsyncClient(headers={"Authorization": f"Bearer {API_KEY}"}): every
\* request of the submit / poll client carries the bearer (65-69, 108-111)
ApiClientAuth == TRUE
\* httpx.AsyncClient() of the fetch phase has no default headers (155)
DownloadClientAuthMut == ApiClientAuth
DownloadClientAuth == FALSE

\* ------------------------------------------------------ generate_3d_model
\* response = await client.post(url, files=files)          (line 70, send)
SendSubmit ==
    /\ tool = "generate_3d_model"
    /\ pc = "submit"
    /\ submitReqs' = submitReqs + 1
    /\ pc' = "submit_wait"
    /\ wire' = wire \cup {<<"submit", ApiClientAuth>>}
    /\ UNCHANGED <<fs0, dir0, invocation, tool, i, statusReqs, manifestReqs, submit_resp, status_resp,
                   pendingPolls, manifest_resp, asset_dict, dirExists, fs,
                   tasks, clientClosed, result>>

SubmitOutcome(r) ==
    IF r = "transport_error" THEN TransportErrorResult
    ELSE IF ErrorHandleRaises(r) THEN HttpErrorResult
    ELSE IF r = "json" THEN Returned("json_data", FALSE)
    ELSE Returned("response.text", FALSE)

\* lines 70-77 from the completion of the POST to the return
RecvSubmitMut(r) ==
    /\ pc = "submit_wait"
    /\ submit_resp' = r
    /\ IF r \in {"transport_error", "http_error"} /\ submitReqs < 2
         THEN pc' = "submit" /\ result' = result
         ELSE pc' = "done" /\ result' = SubmitOutcome(r)
    /\ UNCHANGED <<fs0, dir0, invocation, wire, tool, i, submitReqs,
                   statusReqs, manifestReqs, status_resp, pendingPolls,
                   manifest_resp, asset_dict, dirExists, fs, tasks,
                   clientClosed>>
RecvSubmit(r) ==
    /\ pc = "submit_wait"
    /\ submit_resp' = r
    /\ result' = SubmitOutcome(r)
    /\ pc' = "done"
    /\ UNCHANGED <<fs0, dir0, invocation, wire, tool, i, submitReqs, statusReqs, manifestReqs, status_resp,
                   pendingPolls, manifest_resp, asset_dict, dirExists, fs,
                   tasks, clientClosed>>

\* ---------------------------------------------------- try_download_result
\* response = await client.post(".../api/v2/status", ...)  (lines 115-120)
SendStatus ==
    /\ pc = "poll"
    /\ statusReqs' = statusReqs + 1
    /\ pc' = "status_wait"
    /\ wire' = wire \cup {<<"status", ApiClientAuth>>}
    /\ UNCHANGED <<fs0, dir0, invocation, tool, i, submitReqs, manifestReqs, submit_resp, status_resp,
                   pendingPolls, manifest_resp, asset_dict, dirExists, fs,
                   tasks, clientClosed, result>>

\* lines 115-133: what one loop iteration does with the outcome of its POST
PollOutcome(resp) ==
    IF resp.kind = "transport_error" THEN "transport_error"
    ELSE IF ErrorHandleRaises(resp.kind) THEN "http_error"
    ELSE IF resp.kind = "non_json" THEN "non_json"
    ELSE IF StatusListRaises(resp) THEN "unexpected"
    ELSE IF HasFailed(resp.jobs) THEN "task_failed"
    ELSE IF AllDone(resp.jobs) THEN "break"
    ELSE "sleep"

PollResult(o) ==
    IF o = "transport_error" THEN TransportErrorResult
    ELSE IF o = "http_error" THEN HttpErrorResult
    ELSE IF o = "non_json" THEN JsonErrorResult
    ELSE IF o = "unexpected" THEN Raised(ApiError, "Unexpected response", FALSE)
    ELSE IF o = "task_failed" THEN Raised(ApiError, "Generation task failed!", TRUE)
    ELSE NoResult

\* A status response that shows jobs, none Failed/Canceled, not all Done
IsPending(resp) ==
    /\ resp.kind = "jobs"
    /\ \A k \in DOMAIN resp.jobs : resp.jobs[k] \in Statuses \ {"Failed", "Canceled"}
    /\ \E k \in DOMAIN resp.jobs : resp.jobs[k] # "Done"

RecvStatus(resp) ==
    /\ pc = "status_wait"
    /\ status_resp' = resp
    /\ pendingPolls' = IF IsPending(resp) THEN pendingPolls + 1 ELSE pendingPolls
    /\ LET o == PollOutcome(resp) IN
         /\ result' = PollResult(o)
         /\ pc' = IF o = "break" THEN "manifest"
                  ELSE IF o = "sleep" THEN "poll_sleep"
                  ELSE "done"
    /\ UNCHANGED <<fs0, dir0, invocation, wire, tool, i, submitReqs, statusReqs, manifestReqs, submit_resp,
                   manifest_resp, asset_dict, dirExists, fs, tasks,
                   clientClosed>>

\* await asyncio.sleep(1.5) returns; next iteration or the for-else (133-136)
PollWake ==
    /\ pc = "poll_sleep"
    /\ i' = i + 1
    /\ IF i + 1 < PollAttempts
         THEN pc' = "poll" /\ result' = result
         ELSE pc' = "done" /\ result' = Returned(NotFinished, FALSE)
    /\ UNCHANGED <<fs0, dir0, invocation, wire, tool, submitReqs, statusReqs, manifestReqs, submit_resp,
                   status_resp, pendingPolls, manifest_resp, asset_dict,
                   dirExists, fs, tasks, clientClosed>>

\* response = await client.post(".../api/v2/download", ...) (lines 139-144)
SendManifest ==
    /\ pc = "manifest"
    /\ manifestReqs' = manifestReqs + 1
    /\ pc' = "manifest_wait"
    /\ wire' = wire \cup {<<"manifest", ApiClientAuth>>}
    /\ UNCHANGED <<fs0, dir0, invocation, tool, i, submitReqs, statusReqs, submit_resp, status_resp,
                   pendingPolls, manifest_resp, asset_dict, dirExists, fs,
                   tasks, clientClosed, result>>

\* lines 139-152: the manifest POST's outcome up to the dict comprehension
ManifestOutcome(resp) ==
    IF resp.kind = "transport_error" THEN "transport_error"
    ELSE IF ErrorHandleRaises(resp.kind) THEN "http_error"
    ELSE IF resp.kind = "non_json" THEN "non_json"
    ELSE IF AssetDictRaises(resp) THEN "key_error"
    ELSE "fetch"

ManifestResult(o) ==
    IF o = "transport_error" THEN TransportErrorResult
    ELSE IF o = "http_error" THEN HttpErrorResult
    ELSE IF o = "non_json" THEN JsonErrorResult
    ELSE IF o = "key_error" THEN Raised("KeyError", "list/name/url", FALSE)
    ELSE NoResult

\* tasks = [download_file(client, url, join(target, file_name)) for ...]
LaunchTasksMut(d) ==
    [n \in Names |-> IF n \notin DOMAIN d THEN Unlaunched
                     ELSE IF fs[n] # Absent
                       THEN [pc |-> "done", attempt |-> 0, gets |-> 0]
                       ELSE [pc |-> "ready", attempt |-> 1, gets |-> 0]]
LaunchTasks(d) ==
    [n \in Names |-> IF n \in DOMAIN d
                       THEN [pc |-> "ready", attempt |-> 1, gets |-> 0]
                       ELSE Unlaunched]

\* lines 139-160 from the completion of the POST to `await gather`
RecvManifest(resp) ==
    /\ pc = "manifest_wait"
    /\ manifest_resp' = resp
    /\ LET o == ManifestOutcome(resp) IN
         IF o = "fetch"
           THEN /\ asset_dict' = AssetDict(resp.list)
                /\ dirExists' = TRUE
                /\ tasks' = LaunchTasks(asset_dict')
                /\ pc' = "gather"
                /\ result' = result
           ELSE /\ result' = ManifestResult(o)
                /\ pc' = "done"
                /\ UNCHANGED <<asset_dict, dirExists, tasks>>
    /\ UNCHANGED <<fs0, dir0, invocation, wire, tool, i, submitReqs, statusReqs, manifestReqs, submit_resp,
                   status_resp, pendingPolls, fs, clientClosed>>

\* ----------------------------------------------------------- download_file
\* except-branch of download_file (lines 88-93)
AfterFailureMut(t) ==
    IF t.attempt <= Retries
      THEN [t EXCEPT !.pc = "sleeping"]
      ELSE [t EXCEPT !.pc = "failed"]
AfterFailure(t) ==
    IF t.attempt < Retries
      THEN [t EXCEPT !.pc = "sleeping"]
      ELSE [t EXCEPT !.pc = "failed"]

\* response = await client.get(url) is entered (line 83).  On a closed
\* client the call raises at once (RuntimeError) without sending anything.
TaskSendGet(n) ==
    /\ tasks[n].pc = "ready"
    /\ tasks' = [tasks EXCEPT ![n] =
                   IF clientClosed
                     THEN AfterFailure(@)
                     ELSE [@ EXCEPT !.pc = "inflight", !.gets = @ + 1]]
    /\ wire' = IF clientClosed THEN wire
               ELSE wire \cup {<<"get", DownloadClientAuth>>}
    /\ UNCHANGED <<fs0, dir0, invocation, tool, pc, i, submitReqs, statusReqs, manifestReqs,
                   submit_resp, status_resp, pendingPolls, manifest_resp,
                   asset_dict, dirExists, fs, clientClosed, result>>

\* with open(file_path, "wb") as f: f.write(response.content)  (85-86)
WriteFileMut(f, n, body) == f
WriteFile(f, n, body) == [f EXCEPT ![n] = body]

\* lines 83-93 from the completion of the GET
TaskRecvGetMut(n, r) ==
    /\ tasks[n].pc = "inflight"
    /\ IF r = "ok"
         THEN /\ fs' = WriteFile(fs, n, RemoteContent[asset_dict[n]])
              /\ tasks' = [tasks EXCEPT ![n].pc = "done"]
         ELSE /\ tasks' = [tasks EXCEPT ![n] = AfterFailure(@)]
              /\ fs' = WriteFile(fs, n, "")
    /\ UNCHANGED <<fs0, dir0, invocation, wire, tool, pc, i, submitReqs,
                   statusReqs, manifestReqs, submit_resp, status_resp,
                   pendingPolls, manifest_resp, asset_dict, dirExists,
                   clientClosed, result>>
TaskRecvGet(n, r) ==
    /\ tasks[n].pc = "inflight"
    /\ IF r = "ok"
         THEN /\ fs' = WriteFile(fs, n, RemoteContent[asset_dict[n]])
              /\ tasks' = [tasks EXCEPT ![n].pc = "done"]
         ELSE /\ tasks' = [tasks EXCEPT ![n] = AfterFailure(@)]
              /\ fs' = fs
    /\ UNCHANGED <<fs0, dir0, invocation, wire, tool, pc, i, submitReqs, statusReqs, manifestReqs,
                   submit_resp, status_resp, pendingPolls, manifest_resp,
                   asset_dict, dirExists, clientClosed, result>>

\* await asyncio.sleep(delay) returns; next attempt (lines 81, 91)
TaskWake(n) ==
    /\ tasks[n].pc = "sleeping"
    /\ tasks' = [tasks EXCEPT ![n].pc = "ready", ![n].attempt = @ + 1]
    /\ UNCHANGED <<fs0, dir0, invocation, wire, tool, pc, i, submitReqs, statusReqs, manifestReqs,
                   submit_resp, status_resp, pendingPolls, manifest_resp,
                   asset_dict, dirExists, fs, clientClosed, result>>

\* ------------------------------------------------- await asyncio.gather(...)
\* gather (return_exceptions=False) propagates the first task exception to
\* its awaiter at once; the other tasks are not cancelled.
GatherFailed(ts, d) == \E n \in DOMAIN d : ts[n].pc = "failed"
GatherAllDoneMutAny(ts, d) == \E n \in DOMAIN d : ts[n].pc = "done"
GatherAllDoneMutSettled(ts, d) ==
    \A n \in DOMAIN d : ts[n].pc \in {"done", "failed"}
GatherAllDone(ts, d) == \A n \in DOMAIN d : ts[n].pc = "done"

\* line 160 raising: the `async with` closes the client, the error leaves
GatherRaise ==
    /\ pc = "gather"
    /\ GatherFailed(tasks, asset_dict)
    /\ clientClosed' = TRUE
    /\ result' = Raised("httpx.HTTPError", "download failed", FALSE)
    /\ pc' = "done"
    /\ UNCHANGED <<fs0, dir0, invocation, wire, tool, i, submitReqs, statusReqs, manifestReqs, submit_resp,
                   status_resp, pendingPolls, manifest_resp, asset_dict,
                   dirExists, fs, tasks>>

\* lines 160-170: every task returned; close the client, build the result
GatherReturn ==
    /\ pc = "gather"
    /\ GatherAllDone(tasks, asset_dict)
    /\ clientClosed' = TRUE
    /\ result' = Returned(Downloaded, HasPreview(asset_dict))
    /\ pc' = "done"
    /\ UNCHANGED <<fs0, dir0, invocation, wire, tool, i, submitReqs, statusReqs, manifestReqs, submit_resp,
                   status_resp, pendingPolls, manifest_resp, asset_dict,
                   dirExists, fs, tasks>>

Next ==
    \/ SendSubmit
    \/ \E r \in SubmitResponses : RecvSubmit(r)
    \/ SendStatus
    \/ \E resp \in StatusResponses : RecvStatus(resp)
    \/ PollWake
    \/ SendManifest
    \/ \E resp \in ManifestResponses : RecvManifest(resp)
    \/ \E n \in Names : TaskSendGet(n)
    \/ \E n \in Names, r \in GetResponses : TaskRecvGet(n, r)
    \/ \E n \in Names : TaskWake(n)
    \/ GatherRaise
    \/ GatherReturn

Spec == Init /\ [][Next]_vars

\* One invocation of try_download_result under the event loop's scheduling:
\* every request sent gets some outcome, every sleep ends, every coroutine
\* that can run is run.  The target directory does not exist yet.
DownloadInit == Init /\ tool = "try_download_result" /\ ~dirExists
DownloadNext ==
    \/ SendStatus
    \/ \E resp \in StatusResponses : RecvStatus(resp)
    \/ PollWake
    \/ SendManifest
    \/ \E resp \in ManifestResponses : RecvManifest(resp)
    \/ \E n \in Names : TaskSendGet(n)
    \/ \E n \in Names, r \in GetResponses : TaskRecvGet(n, r)
    \/ \E n \in Names : TaskWake(n)
    \/ GatherRaise
    \/ GatherReturn
FairSpec == DownloadInit /\ [][DownloadNext]_vars /\ WF_vars(DownloadNext)

\* The tool is called again with the same parameters once the previous call
\* and the tasks it left behind are over.  Every local of the coroutine is
\* new (lines 108-160); the module keeps no state between calls, only the
\* files on disk remain.
Reinvoke ==
    /\ tool = "try_download_result"
    /\ pc = "done"
    /\ \A n \in Names : tasks[n].pc \notin {"ready", "inflight", "sleeping"}
    /\ invocation < MaxInvocations
    /\ invocation' = invocation + 1
    /\ pc' = "poll"
    /\ i' = 0
    /\ statusReqs' = 0
    /\ manifestReqs' = 0
    /\ status_resp' = NoStatus
    /\ pendingPolls' = 0
    /\ manifest_resp' = NoManifest
    /\ asset_dict' = <<>>
    /\ tasks' = [n \in Names |-> Unlaunched]
    /\ clientClosed' = FALSE
    /\ fs0' = fs
    /\ dir0' = dirExists
    /\ wire' = {}
    /\ result' = NoResult
    /\ UNCHANGED <<tool, submitReqs, submit_resp, dirExists, fs>>

ReinvokeNext == DownloadNext \/ Reinvoke
ReinvokeSpec == DownloadInit /\ [][ReinvokeNext]_vars

\* ================================================================ claims
Launched == DOMAIN asset_dict
InFlight(n) == tasks[n].pc \in {"ready", "inflight", "sleeping"}
NoFetchActivity ==
    /\ \A n \in Names : tasks[n].gets = 0 /\ tasks[n].pc = "unlaunched"
    /\ fs = fs0
Success == result.outcome = "returned" /\ result.value = Downloaded
\* the status response just seen shows a jobs list whose entries are all Done
SawAllDone ==
    /\ status_resp.kind = "jobs"
    /\ \A k \in DOMAIN status_resp.jobs : status_resp.jobs[k] = "Done"
\* the status response just seen shows a jobs list, every entry with a
\* status, at least one of them Failed or Canceled
SawFailed ==
    /\ status_resp.kind = "jobs"
    /\ \A k \in DOMAIN status_resp.jobs : status_resp.jobs[k] \in Statuses
    /\ \E k \in DOMAIN status_resp.jobs :
          status_resp.jobs[k] \in {"Failed", "Canceled"}

\* C1: once a status response lists every job as Done the poll loop is left:
\* the manifest request is the next request, it is sent exactly once and no
\* status request follows; no run sends more than 3 status requests.
C1_DoneAdvancesOnce ==
    /\ [](/\ statusReqs <= 3
          /\ manifestReqs <= 1
          /\ SawAllDone =>
               /\ pc \in {"manifest", "manifest_wait", "gather", "done"}
               /\ manifestReqs = IF pc = "manifest" THEN 0 ELSE 1)
    /\ [][SawAllDone => statusReqs' = statusReqs]_vars
C1_Witness ==
    /\ SawAllDone
    /\ status_resp.jobs = <<"Done", "Done">>
    /\ statusReqs = 3
    /\ manifestReqs = 1

\* C2: a status response with a job Failed or Canceled (the other jobs in
\* any status) ends the invocation with the task-failure error; no manifest
\* request, no asset GET and no file write happened.
C2_FailedIsTaskFailure ==
    SawFailed =>
        /\ pc = "done"
        /\ result = Raised(ApiError, "Generation task failed!", TRUE)
        /\ manifestReqs = 0
        /\ NoFetchActivity
C2_Witness ==
    /\ status_resp.jobs = <<"Done", "Canceled">>
    /\ result.outcome = "raised"
    /\ statusReqs = 2

\* C3: three status polls that each showed jobs, none Failed/Canceled and
\* not all Done, end in the returned "not finished yet" string after exactly
\* 3 status requests and no manifest request; nothing is raised.
C3_NotFinishedSentinel ==
    pendingPolls >= 3 =>
        /\ pendingPolls = 3
        /\ statusReqs = 3
        /\ manifestReqs = 0
        /\ pc \in {"poll_sleep", "done"}
        /\ result.outcome # "raised"
        /\ pc = "done" => result = Returned(NotFinished, FALSE)
C3_Witness ==
    /\ pendingPolls = 3
    /\ pc = "done"
    /\ result.value = NotFinished

\* C4: when the manifest's N names are pairwise distinct and the success
\* result is returned, exactly N files were written, one at each manifest
\* name, each holding the content served at that entry's URL.
DistinctNames(list) ==
    \A j, k \in DOMAIN list : list[j].name = list[k].name => j = k
WrittenFiles == {n \in Names : fs[n] \notin {Absent, Old}}
C4_AllFilesWritten ==
    (Success /\ DistinctNames(manifest_resp.list)) =>
        /\ Cardinality(WrittenFiles) = Len(manifest_resp.list)
        /\ \A k \in DOMAIN manifest_resp.list :
              fs[manifest_resp.list[k].name]
                  = RemoteContent[manifest_resp.list[k].url]
        /\ dirExists
C4_Witness ==
    /\ Success
    /\ Len(manifest_resp.list) = 2
    /\ DistinctNames(manifest_resp.list)
    /\ fs0["model.glb"] = Old

\* C5: a fetch task sends at most 3 GETs and stops at the first one that
\* succeeds: a finished task has written that response's body, sent as many
\* GETs as attempts, and never acts again; when every task finished this
\* way the tool returns its success result.
C5_RetryStopsAtFirstSuccess ==
    /\ [](/\ \A n \in Names :
               /\ tasks[n].gets <= 3
               /\ tasks[n].pc = "done" =>
                    /\ fs[n] = RemoteContent[asset_dict[n]]
                    /\ tasks[n].gets = tasks[n].attempt
          /\ (pc = "done" /\ manifest_resp.kind = "list"
                /\ result.exc # "KeyError"
                /\ \A n \in Launched : tasks[n].pc = "done") => Success)
    /\ [][\A n \in Names :
            tasks[n].pc = "done" => tasks'[n] = tasks[n] /\ fs'[n] = fs[n]]_vars
C5_Witness ==
    /\ Success
    /\ \E n \in Launched : tasks[n].pc = "done" /\ tasks[n].gets = 3

\* C6: once a fetch task has failed its last attempt the tool never returns
\* success, it ends by raising; files written by the finished tasks stay.
C6_OneFailureFailsAll ==
    (\E n \in Launched : tasks[n].pc = "failed") =>
        /\ result.outcome # "returned"
        /\ pc = "done" => result.outcome = "raised"
        /\ \A m \in Launched :
              tasks[m].pc = "done" => fs[m] = RemoteContent[asset_dict[m]]
C6_Witness ==
    /\ result.outcome = "raised"
    /\ \E n, m \in Launched :
          /\ tasks[n].pc = "failed" /\ tasks[n].gets = 3
          /\ tasks[m].pc = "done"
          /\ fs[m] = RemoteContent[asset_dict[m]]

\* C7 (as stated): the tool has produced no result, returned or raised,
\* while a fetch task it launched is still sending GETs, sleeping or writing.
C7_NoResultWhileInFlight ==
    result.outcome # "none" => \A n \in Names : ~InFlight(n)
\* C7 (amended): the success result is returned only when every launched
\* fetch task has finished; an error raised out of the fetch phase means a
\* task has failed its last attempt, and sibling tasks may still be running.
C7_ResultAfterTasks ==
    /\ Success => \A n \in Launched : tasks[n].pc = "done"
    /\ (result.outcome # "none" /\ \E n \in Names : InFlight(n)) =>
          /\ result.outcome = "raised"
          /\ \E m \in Launched : tasks[m].pc = "failed"
C7_Witness ==
    /\ result.outcome = "raised"
    /\ \E n, m \in Launched :
          /\ tasks[n].pc = "failed"
          /\ tasks[m].pc = "inflight" /\ tasks[m].attempt = 1

\* the vendor request whose outcome the tool acted on last
LastVendorKind ==
    IF tool = "generate_3d_model" THEN submit_resp
    ELSE IF manifestReqs = 0 THEN status_resp.kind
    ELSE manifest_resp.kind

\* C8: a submit, status or manifest request that failed (non-2xx, or a
\* connection error / timeout) ends the tool with RodinAPIException, which
\* carries the response exactly when there is one (the non-2xx case).
C8_FailuresAreApiErrors ==
    LastVendorKind \in {"transport_error", "http_error"} =>
        /\ pc = "done"
        /\ result.outcome = "raised"
        /\ result.exc = ApiError
        /\ result.response = (LastVendorKind = "http_error")

MalformedStatus ==
    \/ status_resp.kind = "no_jobs"
    \/ /\ status_resp.kind = "jobs"
       /\ \E k \in DOMAIN status_resp.jobs : status_resp.jobs[k] = Missing
MalformedManifest ==
    \/ manifest_resp.kind = "no_list"
    \/ /\ manifest_resp.kind = "list"
       /\ \E k \in DOMAIN manifest_resp.list :
             manifest_resp.list[k].name = Missing
                 \/ manifest_resp.list[k].url = Missing

\* C9: a 2xx response of unexpected shape ends try_download_result with
\* RodinAPIException, for the status endpoint (no jobs list, entry without
\* status) and for the download endpoint (no list, entry without name/url);
\* in the latter case no directory was created and no asset GET was sent.
C9_MalformedIsApiError ==
    /\ MalformedStatus =>
          pc = "done" /\ result.outcome = "raised" /\ result.exc = ApiError
    /\ MalformedManifest =>
          /\ pc = "done" /\ result.outcome = "raised" /\ result.exc = ApiError
          /\ dirExists = dir0
          /\ NoFetchActivity

\* C10: the success result carries the preview reference exactly when the
\* manifest has an entry named "preview.webp", and then that file was
\* fetched and written before the result was returned.
ManifestNames ==
    {manifest_resp.list[k].name : k \in DOMAIN manifest_resp.list}
C10_PreviewIffInManifest ==
    Success =>
        /\ result.preview <=> "preview.webp" \in ManifestNames
        /\ result.preview =>
              /\ tasks["preview.webp"].pc = "done"
              /\ tasks["preview.webp"].gets >= 1
              /\ fs["preview.webp"] = RemoteContent[asset_dict["preview.webp"]]
C10_Witness ==
    /\ Success
    /\ result.preview
    /\ ManifestNames = Names
C10_WitnessNoPreview ==
    /\ Success
    /\ ~result.preview
    /\ ManifestNames = {"model.glb"}

\* C11: an invocation of generate_3d_model sends exactly one POST to the
\* submit endpoint whatever comes back (JSON, non-JSON text, non-2xx or a
\* transport failure): no resubmission, no other vendor request.
C11_SingleSubmit ==
    tool = "generate_3d_model" =>
        /\ submitReqs = IF pc = "submit" THEN 0 ELSE 1
        /\ pc \in {"submit", "submit_wait", "done"}
        /\ pc = "done" <=> result.outcome # "none"
        /\ statusReqs = 0 /\ manifestReqs = 0
        /\ wire \subseteq {<<"submit", TRUE>>}
        /\ \A n \in Names : tasks[n].gets = 0
C11_Witness ==
    /\ tool = "generate_3d_model"
    /\ submit_resp = "http_error"
    /\ result.outcome = "raised"
    /\ submitReqs = 1

\* C12: the phases of one try_download_result are strictly ordered: the
\* manifest request follows an all-Done status response, GETs and writes
\* follow the manifest response, no status request follows the manifest
\* request, and no status poll is pending while a fetch task is running.
C12_PhasesOrdered ==
    /\ [](/\ manifestReqs > 0 => SawAllDone
          /\ (\E n \in Names : tasks[n].pc # "unlaunched" \/ fs[n] # fs0[n]) =>
                /\ manifest_resp.kind = "list"
                /\ pc \in {"gather", "done"}
          /\ pc \in {"poll", "status_wait", "poll_sleep"} => manifestReqs = 0)
    /\ [][manifestReqs > 0 => statusReqs' = statusReqs]_vars
C12_Witness ==
    /\ pc = "gather"
    /\ statusReqs = 2
    /\ \E n \in Launched : tasks[n].pc = "inflight" /\ tasks[n].attempt = 2

\* C13: a status request that fails (transport error or non-2xx) ends the
\* invocation at once with the API error, which is not the task-failure
\* error; no status request, manifest request or asset GET follows.
C13_FailedPollIsApiError ==
    (manifestReqs = 0 /\ status_resp.kind \in {"transport_error", "http_error"}) =>
        /\ pc = "done"
        /\ result.outcome = "raised"
        /\ result.exc = ApiError
        /\ result.msg # "Generation task failed!"
        /\ NoFetchActivity

\* C14: after one fetch task has failed its last attempt the sibling tasks
\* are not cancelled and go on exactly as they would have: every attempt a
\* task starts sends its GET, also once the tool itself has raised.
C14_SiblingsUnaffected ==
    \A n \in Launched :
        /\ tasks[n].pc \in {"ready", "inflight", "sleeping", "done", "failed"}
        /\ tasks[n].gets =
              IF tasks[n].pc = "ready" THEN tasks[n].attempt - 1
              ELSE tasks[n].attempt

\* C15: when manifest entries share a name, one fetch task is launched for
\* that name, with the URL of the last such entry; there are as many tasks
\* as distinct names, so each task has a file path of its own.
WellFormedManifest == manifest_resp.kind = "list" /\ ~MalformedManifest
IsLastEntry(k) ==
    \A j \in DOMAIN manifest_resp.list :
        manifest_resp.list[j].name = manifest_resp.list[k].name => j <= k
LaunchedTasks == {n \in Names : tasks[n].pc # "unlaunched"}
C15_DuplicateNamesLastWins ==
    WellFormedManifest =>
        /\ LaunchedTasks = ManifestNames
        /\ Cardinality(LaunchedTasks) = Cardinality(ManifestNames)
        /\ \A k \in DOMAIN manifest_resp.list :
              IsLastEntry(k) =>
                 LET n == manifest_resp.list[k].name IN
                   /\ asset_dict[n] = manifest_resp.list[k].url
                   /\ tasks[n].pc = "done" =>
                         fs[n] = RemoteContent[manifest_resp.list[k].url]
C15_Witness ==
    /\ manifest_resp.list = <<[name |-> "preview.webp", url |-> "u1"],
                              [name |-> "preview.webp", url |-> "u2"]>>
    /\ LaunchedTasks = {"preview.webp"}
    /\ tasks["preview.webp"].pc = "done"
    /\ fs["preview.webp"] = "bytes2"

\* C16: with every request eventually answered and fair scheduling, an
\* invocation of try_download_result eventually ends: it returns the
\* not-finished string or the success result, or raises (task failure, API
\* or transport error); it sends at most 3 status requests, 1 manifest
\* request and 3 GETs per manifest name, and none for any other name.
Terminated ==
    /\ pc = "done"
    /\ \/ result = Returned(NotFinished, FALSE)
       \/ Success
       \/ result.outcome = "raised" /\ result.exc # ""
C17_InvocationsIndependent ==
    /\ manifestReqs > 0 => statusReqs >= 1 /\ SawAllDone
    /\ LaunchedTasks # {} => manifestReqs = 1
    /\ WellFormedManifest => LaunchedTasks = ManifestNames
    /\ \A n \in Names :
          tasks[n].pc = "done" =>
             /\ tasks[n].gets >= 1
             /\ fs[n] = RemoteContent[asset_dict[n]]
    /\ Success => \A n \in ManifestNames : tasks[n].pc = "done"
    /\ (pc = "poll" /\ i = 0) =>
          /\ statusReqs = 0 /\ manifestReqs = 0 /\ LaunchedTasks = {}
          /\ fs = fs0 /\ result = NoResult
C17_Witness ==
    /\ invocation = 2
    /\ Success
    /\ fs0 = [n \in Names |-> IF n = "model.glb" THEN "bytes1" ELSE Absent]
    /\ dir0
    /\ ManifestNames = Names
    /\ fs["model.glb"] = "bytes2"
    /\ tasks["model.glb"].gets >= 1

\* C18: every submit request and every status request carries the bearer
\* credential; no asset GET of a fetch task carries it.
C18_BearerOnlyToVendorApi ==
    /\ \A w \in wire :
          /\ w[1] \in {"submit", "status"} => w[2]
          /\ w[1] = "get" => ~w[2]
    /\ submitReqs > 0 => <<"submit", TRUE>> \in wire
    /\ statusReqs > 0 => <<"status", TRUE>> \in wire
    /\ (\E n \in Names : tasks[n].gets > 0) => <<"get", FALSE>> \in wire
C18_Witness ==
    /\ <<"status", TRUE>> \in wire
    /\ <<"get", FALSE>> \in wire
    /\ \E n \in Names : tasks[n].pc = "done"

\* C19: filesystem frame.  Until the fetch phase is entered (sentinel, task
\* failure, failed or malformed status or manifest response) no file changes
\* and the target directory is not created; in the fetch phase a file
\* changes only in the step that receives a 2xx GET for it, so a task whose
\* attempts all failed leaves the file at its path as it was.
C19_FilesystemFrame ==
    /\ [](/\ ~WellFormedManifest => fs = fs0 /\ dirExists = dir0
          /\ \A n \in Names :
                /\ fs[n] # fs0[n] => tasks[n].pc = "done" /\ tasks[n].gets >= 1
                /\ tasks[n].pc = "failed" => fs[n] = fs0[n])
    /\ [][\A n \in Names :
            fs'[n] # fs[n] =>
               /\ tasks[n].pc = "inflight" /\ tasks'[n].pc = "done"
               /\ fs'[n] = RemoteContent[asset_dict[n]]]_vars
C19_Witness ==
    /\ result.outcome = "raised"
    /\ tasks["model.glb"].pc = "failed" /\ tasks["model.glb"].gets = 3
    /\ fs0["model.glb"] = Old /\ fs["model.glb"] = Old
    /\ tasks["preview.webp"].pc = "done"
    /\ fs0["preview.webp"] = Old /\ fs["preview.webp"] # Old

\* C20: a status response whose jobs list is present but empty counts as
\* every job Done: that poll leaves the loop without sleeping and the
\* manifest request is sent; the not-finished string is not returned.
SawEmptyJobs == status_resp.kind = "jobs" /\ status_resp.jobs = <<>>
C20_EmptyJobsIsDone ==
    SawEmptyJobs =>
        /\ pc \notin {"poll", "status_wait", "poll_sleep"}
        /\ i = statusReqs - 1
        /\ manifestReqs = IF pc = "manifest" THEN 0 ELSE 1
        /\ result.value # NotFinished
        /\ result.msg # "Unexpected response"
C20_Witness ==
    /\ SawEmptyJobs
    /\ statusReqs = 1
    /\ manifestReqs = 1
    /\ pc = "gather"

TypeOK ==
    /\ tool \in {"generate_3d_model", "try_download_result"}
    /\ i \in 0..PollAttempts
    /\ statusReqs \in Nat /\ manifestReqs \in Nat /\ submitReqs \in Nat
    /\ fs \in [Names -> {Absent, Old} \cup {RemoteContent[u] : u \in Urls}]
    /\ DOMAIN asset_dict \subseteq Names

====
